---- MODULE Spec2Model ----
(***************************************************************************)
(* A model of the energy-based inference engine of the QHBM library:       *)
(* EnergyInferenceBase (seed / checkpoint / first-inference lifecycle and  *)
(* the preface run before every public operation), the default estimators  *)
(* of EnergyInference, and the Analytic and Bernoulli engines.             *)
(*                                                                         *)
(* One engine is modelled.  The caller is sequential: it mutates the       *)
(* energy parameters, assigns the seed property and invokes operations     *)
(* only while no operation is running.  An operation is a frame on a call  *)
(* stack; hooks that call public operations (call -> sample,               *)
(* expectation -> sample, the log-partition gradient -> expectation) push  *)
(* further frames, each running the preface again.                         *)
(***************************************************************************)
EXTENDS Integers, Sequences, FiniteSets, TLC

(***************************************************************************)
(* Bounds of the model.                                                    *)
(***************************************************************************)
MaxOps == 2
MaxVal == 1
MaxSeed == 0
MaxSamples == 1
NumBits == 2
MaxDraws == 3
MaxFn == 2

\* The number of elements of the tracked parameter tensor.
ParamLen == 1

\* `None`, as an integer that is neither a seed nor a sample count.
NoneInput == -1

VARIABLES
    kind,               \* the engine's class
    checkpoint,         \* self._checkpoint: len(self._tracked_variables) > 0
    tracked_variables,  \* the energy's parameter tensor
    tracked_variables_checkpoint,
    logits_variable,    \* self._logits_variable of the concrete engines
    first_inference,    \* self._first_inference
    update_seed,        \* self._update_seed
    seed,               \* self._seed
    num_expectation_samples,
    stack,              \* the running operations, innermost last
    outcome,            \* how the last caller-invoked operation ended
    haveGradFn,         \* a forward log_partition has returned its grad_fn
    opsDone,            \* caller-invoked operations so far (bounded by MaxOps)
    \* history variables (read by no action's guard or assignment)
    readySinceChange,   \* _ready_inference ran after the last parameter change
    readyParams,        \* the parameter values the last _ready_inference ran on
    firstLog,           \* what the first-inference block has done, in order
    everCleared,        \* the first-inference flag has been cleared once
    usedSeeds,          \* seeds _sample read since the last seed assignment
    lastSeedAssign,     \* the last value given to the constructor / seed setter
    prev,               \* per operation and argument, its last result
    opDraws,            \* _sample runs inside the caller-invoked operation
    hookLog,            \* abstract hook bodies entered, with how each ended
    \* the forward pass of _expectation, taken on its own
    fwd,
    \* a QHBM built on an engine and a quantum inference object
    qhbm,
    \* the backward pass of _expectation, taken on its own
    bwd,
    \* the relaxed-categorical utilities, taken on their own
    rc,
    \* the log-partition computations of the concrete engines
    pf

vars == <<kind, checkpoint, tracked_variables, tracked_variables_checkpoint,
          logits_variable, first_inference, update_seed, seed,
          num_expectation_samples, stack, outcome, haveGradFn, opsDone,
          readySinceChange, readyParams, firstLog, everCleared, usedSeeds,
          lastSeedAssign, prev, opDraws, hookLog, fwd, qhbm, bwd, rc, pf>>

\* What no action of the engine changes.
fixedVars == <<kind, checkpoint, num_expectation_samples, fwd, qhbm, bwd, rc,
               pf>>

(***************************************************************************)
(* Values.                                                                 *)
(***************************************************************************)
ParamValues == [1..ParamLen -> 0..MaxVal]
UserSeeds == 0..MaxSeed
SampleCounts == 1..MaxSamples
\* The engine's class.  "Analytic" and "Bernoulli" are the concrete engines.
\* "Default" is a subclass of EnergyInference and "Base" one of
\* EnergyInferenceBase that supply no implementation of their own: each of
\* their hooks runs the body it inherits.
Kinds == {"Analytic", "Bernoulli", "Default", "Base"}
ConcreteKinds == {"Analytic", "Bernoulli"}
Functions == {"f"}

PublicOps == {"call", "entropy", "expectation", "log_partition", "sample"}
Hooks == {"_ready_inference", "_call", "_entropy", "_expectation",
          "_log_partition", "_sample", "_log_partition_forward_pass"}

Range(q) == {q[i] : i \in 1..Len(q)}

NoResult == [t |-> "none"]
Running == [t |-> "running"]

(***************************************************************************)
(* tfp.random.split_seed, first component: an injective function without   *)
(* cycles (seed s is node s of a binary tree, its first child 2s+1).       *)
(***************************************************************************)
SplitSeedSame(s) == s

SplitSeed(s) == 2 * s + 1

RECURSIVE SplitN(_, _)
SplitN(s, n) == IF n = 0 THEN s ELSE SplitN(SplitSeed(s), n - 1)

(***************************************************************************)
(* The energy, as far as the engine reads it.  The logits of a Bernoulli   *)
(* energy are its parameters, one per bit; the negated energies of an      *)
(* Analytic engine are kept as a term over the parameters they were        *)
(* computed at.                                                            *)
(***************************************************************************)
EnergyLogits(p) == p

ReadyValueKept(k, p, old) == old

\* What _ready_inference assigns to self._logits_variable.
ReadyValue(k, p, old) ==
    CASE k = "Analytic" -> [src |-> "neg_all_energies", at |-> p]
      [] k = "Bernoulli" -> [src |-> "energy_logits", at |-> EnergyLogits(p)]
      [] OTHER -> old

\* What the constructors assign to self._logits_variable.
InitLogits(k, p) ==
    IF k \in ConcreteKinds THEN ReadyValue(k, p, NoResult) ELSE NoResult

(***************************************************************************)
(* Which class supplies the body of a hook.                                *)
(***************************************************************************)
HookImpl(k, h) ==
    CASE k = "Base" -> "abstract"
      [] k = "Default" ->
            IF h \in {"_expectation", "_log_partition"} THEN "EnergyInference"
            ELSE "abstract"
      [] OTHER ->
            IF h \in {"_expectation", "_log_partition"} THEN "EnergyInference"
            ELSE k

\* The bodies of the abstract hooks.
AbstractHookBody(h) ==
    IF h = "_ready_inference" THEN "returns_None" ELSE "NotImplementedError"

(***************************************************************************)
(* variables_updated and _checkpoint_variables.                            *)
(***************************************************************************)
VariablesUpdatedNever(hv, p, c) == FALSE

VariablesUpdated(hv, p, c) ==
    IF hv THEN \E i \in 1..ParamLen : p[i] # c[i] ELSE FALSE

CheckpointVariablesSkipped(hv, p, c) == c

CheckpointVariables(hv, p, c) == IF hv THEN p ELSE c

(***************************************************************************)
(* Frames.                                                                 *)
(***************************************************************************)
Top == stack[Len(stack)]
Idle == stack = <<>>
Depth == Len(stack)

SetTop(f) == [stack EXCEPT ![Len(stack)] = f]

\* The statements of _preface_inference, in program order.
PrefaceProgramSeedLast ==
    <<"first_ckpt", "first_ready", "first_clear", "stale", "seed">>

PrefaceProgramClearFirst ==
    <<"first_clear", "first_ckpt", "first_ready", "seed", "stale">>

PrefaceProgramNoRefresh ==
    <<"first_ckpt", "first_ready", "first_clear", "seed">>

PrefaceProgram ==
    <<"first_ckpt", "first_ready", "first_clear", "seed", "stale">>

\* The wrapper of preface_inference: the preface, then the wrapped method.
WrapperStartNoPreface(op) == Len(PrefaceProgram) + 1

WrapperStart(op) == IF op \in PublicOps THEN 1 ELSE Len(PrefaceProgram) + 1

AtPreface(f, label) ==
    /\ f.pc = "preface"
    /\ f.i <= Len(PrefaceProgram)
    /\ PrefaceProgram[f.i] = label

\* The frame after the preface statement at f.i, which did `events`.
Advance(f, events) ==
    [f EXCEPT !.i = f.i + 1,
              !.log = f.log \o events,
              !.pc = IF f.i + 1 > Len(PrefaceProgram) THEN "body" ELSE "preface"]

NewFrame(op, arg, fn) ==
    [op |-> op, arg |-> arg, fn |-> fn,
     pc |-> IF WrapperStart(op) > Len(PrefaceProgram) THEN "body" ELSE "preface",
     i |-> WrapperStart(op),
     first |-> first_inference,
     entrySeed |-> seed,
     entryUpdated |-> VariablesUpdated(checkpoint, tracked_variables,
                                       tracked_variables_checkpoint),
     log |-> <<>>,
     result |-> Running]

Keys == ({"sample", "call"} \X SampleCounts \X {"-"})
        \cup {<<"call", NoneInput, "-">>, <<"entropy", 0, "-">>,
              <<"log_partition", 0, "-">>, <<"log_partition_grad", 0, "-">>}
        \cup ({"expectation"} \X {0} \X Functions)

KeyOf(f) == <<f.op, f.arg, f.fn>>

NotImplemented == [t |-> "NotImplementedError"]

(***************************************************************************)
(* Construction: EnergyInferenceBase.__init__ and the subclasses'.         *)
(***************************************************************************)
Init ==
    /\ kind \in Kinds
    /\ checkpoint \in BOOLEAN
    /\ kind = "Bernoulli" => checkpoint
    /\ tracked_variables \in ParamValues
    /\ ~checkpoint => tracked_variables = [i \in 1..ParamLen |-> 0]
    /\ tracked_variables_checkpoint = tracked_variables
    /\ logits_variable = InitLogits(kind, tracked_variables)
    /\ first_inference = TRUE
    /\ \E initial_seed \in UserSeeds \cup {NoneInput} :
          /\ update_seed = (initial_seed = NoneInput)
          /\ seed \in (IF initial_seed = NoneInput THEN UserSeeds ELSE {initial_seed})
          /\ lastSeedAssign = <<"__init__", initial_seed>>
    /\ num_expectation_samples \in SampleCounts
    /\ stack = <<>>
    /\ outcome = NoResult
    /\ haveGradFn = FALSE
    /\ opsDone = 0
    /\ readySinceChange = FALSE
    /\ readyParams = NoResult
    /\ firstLog = <<>>
    /\ everCleared = FALSE
    /\ usedSeeds = {}
    /\ prev = [k \in Keys |-> NoResult]
    /\ opDraws = 0
    /\ hookLog = {}
    /\ fwd = NoResult
    /\ qhbm = NoResult
    /\ bwd = NoResult
    /\ rc = NoResult
    /\ pf = NoResult

(***************************************************************************)
(* The caller, between operations.                                         *)
(***************************************************************************)
\* A training step assigns the energy's variables.
MutateParams(v) ==
    /\ Idle
    /\ opsDone < MaxOps
    /\ checkpoint
    /\ tracked_variables' = v
    /\ readySinceChange' = IF v # tracked_variables THEN FALSE ELSE readySinceChange
    /\ UNCHANGED readyParams
    /\ prev' = IF v # tracked_variables THEN [k \in Keys |-> NoResult] ELSE prev
    /\ UNCHANGED <<fixedVars, tracked_variables_checkpoint, logits_variable,
                   first_inference, update_seed, seed, stack, outcome,
                   haveGradFn, opsDone, firstLog, everCleared, usedSeeds,
                   lastSeedAssign, opDraws, hookLog>>

\* The flag a seed assignment leaves in self._update_seed.
SetterFlagAlwaysOn(initial_seed) == TRUE

SetterFlag(initial_seed) == initial_seed = NoneInput

\* The seed property's setter.
SetSeed(initial_seed, sanitized) ==
    /\ Idle
    /\ opsDone < MaxOps
    /\ sanitized \in (IF initial_seed = NoneInput THEN UserSeeds ELSE {initial_seed})
    /\ update_seed' = SetterFlag(initial_seed)
    /\ seed' = sanitized
    /\ lastSeedAssign' = <<"setter", initial_seed>>
    /\ usedSeeds' = {}
    /\ prev' = [k \in Keys |-> NoResult]
    /\ UNCHANGED <<fixedVars, tracked_variables, tracked_variables_checkpoint,
                   logits_variable, first_inference, stack, outcome, haveGradFn,
                   opsDone, readySinceChange, readyParams, firstLog,
                   everCleared, opDraws, hookLog>>

\* The caller invokes a public operation, or autodiff the log-partition grad_fn.
Invoke(op, arg, fn) ==
    /\ Idle
    /\ opsDone < MaxOps
    /\ <<op, arg, fn>> \in Keys
    /\ op = "log_partition_grad" => haveGradFn
    /\ stack' = <<NewFrame(op, arg, fn)>>
    /\ opsDone' = opsDone + 1
    /\ opDraws' = 0
    /\ outcome' = Running
    /\ UNCHANGED <<fixedVars, tracked_variables, tracked_variables_checkpoint,
                   logits_variable, first_inference, update_seed, seed,
                   haveGradFn, readySinceChange, readyParams, firstLog,
                   everCleared, usedSeeds, lastSeedAssign, prev, hookLog>>

(***************************************************************************)
(* _ready_inference, as dispatched on the engine's class.  `f2` is the     *)
(* running frame once the call has returned.                               *)
(***************************************************************************)
ReadyInference(f2) ==
    IF HookImpl(kind, "_ready_inference") = "abstract"
    THEN /\ hookLog' = hookLog \cup
                {<<"_ready_inference", AbstractHookBody("_ready_inference")>>}
         /\ logits_variable' = logits_variable
         /\ IF AbstractHookBody("_ready_inference") = "NotImplementedError"
            THEN /\ stack' = <<>>
                 /\ outcome' = NotImplemented
            ELSE /\ stack' = SetTop(f2)
                 /\ outcome' = outcome
    ELSE /\ logits_variable' = ReadyValue(kind, tracked_variables, logits_variable)
         /\ stack' = SetTop(f2)
         /\ UNCHANGED <<hookLog, outcome>>

(***************************************************************************)
(* _preface_inference, one statement per action.                           *)
(***************************************************************************)
\* if self._first_inference: self._checkpoint_variables()
PrefaceFirstCheckpoint ==
    /\ ~Idle
    /\ AtPreface(Top, "first_ckpt")
    /\ IF first_inference
       THEN /\ tracked_variables_checkpoint' =
                  CheckpointVariables(checkpoint, tracked_variables,
                                      tracked_variables_checkpoint)
            /\ firstLog' = Append(firstLog, "ckpt")
            /\ stack' = SetTop(Advance(Top, <<"first:ckpt">>))
       ELSE /\ stack' = SetTop(Advance(Top, <<>>))
            /\ UNCHANGED <<tracked_variables_checkpoint, firstLog>>
    /\ UNCHANGED <<fixedVars, tracked_variables, logits_variable,
                   first_inference, update_seed, seed, outcome, haveGradFn,
                   opsDone, readySinceChange, readyParams, everCleared,
                   usedSeeds, lastSeedAssign, prev, opDraws, hookLog>>

\* (if self._first_inference:) self._ready_inference()
PrefaceFirstReady ==
    /\ ~Idle
    /\ AtPreface(Top, "first_ready")
    /\ IF first_inference
       THEN /\ ReadyInference(Advance(Top, <<"first:ready">>))
            /\ firstLog' = Append(firstLog, "ready")
            /\ readySinceChange' = TRUE
            /\ readyParams' = tracked_variables
       ELSE /\ stack' = SetTop(Advance(Top, <<>>))
            /\ UNCHANGED <<logits_variable, firstLog, readySinceChange,
                           readyParams, hookLog, outcome>>
    /\ UNCHANGED <<fixedVars, tracked_variables, tracked_variables_checkpoint,
                   first_inference, update_seed, seed, haveGradFn, opsDone,
                   everCleared, usedSeeds, lastSeedAssign, prev, opDraws>>

\* (if self._first_inference:) self._first_inference.assign(False)
PrefaceFirstClear ==
    /\ ~Idle
    /\ AtPreface(Top, "first_clear")
    /\ IF first_inference
       THEN /\ first_inference' = FALSE
            /\ everCleared' = TRUE
            /\ firstLog' = Append(firstLog, "clear")
            /\ stack' = SetTop(Advance(Top, <<"first:clear">>))
       ELSE /\ stack' = SetTop(Advance(Top, <<>>))
            /\ UNCHANGED <<first_inference, everCleared, firstLog>>
    /\ UNCHANGED <<fixedVars, tracked_variables, tracked_variables_checkpoint,
                   logits_variable, update_seed, seed, outcome, haveGradFn,
                   opsDone, readySinceChange, readyParams, usedSeeds,
                   lastSeedAssign, prev, opDraws, hookLog>>

SeedStepTakenAlways(flag) == TRUE

\* `if self._update_seed:` of the preface
SeedStepTaken(flag) == flag

\* if self._update_seed: self._seed.assign(split_seed(self.seed)[0])
PrefaceSeed ==
    /\ ~Idle
    /\ AtPreface(Top, "seed")
    /\ IF SeedStepTaken(update_seed)
       THEN /\ seed' = SplitSeed(seed)
            /\ stack' = SetTop(Advance(Top, <<"seed:split">>))
       ELSE /\ stack' = SetTop(Advance(Top, <<>>))
            /\ UNCHANGED seed
    /\ UNCHANGED <<fixedVars, tracked_variables, tracked_variables_checkpoint,
                   logits_variable, first_inference, update_seed, outcome,
                   haveGradFn, opsDone, readySinceChange, readyParams, firstLog,
                   everCleared, usedSeeds, lastSeedAssign, prev, opDraws,
                   hookLog>>

\* if self.variables_updated: checkpoint the variables, self._ready_inference()
PrefaceStale ==
    /\ ~Idle
    /\ AtPreface(Top, "stale")
    /\ IF VariablesUpdated(checkpoint, tracked_variables, tracked_variables_checkpoint)
       THEN /\ tracked_variables_checkpoint' =
                  CheckpointVariables(checkpoint, tracked_variables,
                                      tracked_variables_checkpoint)
            /\ ReadyInference(Advance(Top, <<"stale:ckpt", "stale:ready">>))
            /\ readySinceChange' = TRUE
            /\ readyParams' = tracked_variables
       ELSE /\ stack' = SetTop(Advance(Top, <<>>))
            /\ UNCHANGED <<tracked_variables_checkpoint, logits_variable,
                           readySinceChange, readyParams, hookLog, outcome>>
    /\ UNCHANGED <<fixedVars, tracked_variables, first_inference, update_seed,
                   seed, haveGradFn, opsDone, firstLog, everCleared, usedSeeds,
                   lastSeedAssign, prev, opDraws>>

(***************************************************************************)
(* The wrapped methods and their hooks.                                    *)
(***************************************************************************)
AtBody(op) == ~Idle /\ Top.pc = "body" /\ Top.op = op

Done(f, r) == [f EXCEPT !.pc = "done", !.result = r]

\* A nested public call: the caller waits, the callee starts at its wrapper.
CallPublic(op, arg, fn) ==
    Append(SetTop([Top EXCEPT !.pc = "wait"]), NewFrame(op, arg, fn))

\* An abstract hook body runs: NotImplementedError propagates to the caller.
EnterAbstract(h) ==
    /\ hookLog' = hookLog \cup {<<h, AbstractHookBody(h)>>}
    /\ IF AbstractHookBody(h) = "NotImplementedError"
       THEN /\ stack' = <<>>
            /\ outcome' = NotImplemented
       ELSE /\ stack' = SetTop(Done(Top, NoResult))
            /\ outcome' = outcome

\* The value of _sample: a draw that is a function of count, seed and logits.
SampleValue(n, s, l) == [t |-> "samples", n |-> n, seed |-> s, logits |-> l]

\* sample -> _sample
BodySample ==
    /\ AtBody("sample")
    /\ IF HookImpl(kind, "_sample") = "abstract"
       THEN /\ EnterAbstract("_sample")
            /\ UNCHANGED <<usedSeeds, opDraws>>
       ELSE /\ stack' = SetTop(Done(Top, SampleValue(Top.arg, seed, logits_variable)))
            /\ usedSeeds' = usedSeeds \cup {seed}
            /\ opDraws' = opDraws + 1
            /\ UNCHANGED <<hookLog, outcome>>
    /\ UNCHANGED <<fixedVars, tracked_variables, tracked_variables_checkpoint,
                   logits_variable, first_inference, update_seed, seed,
                   haveGradFn, opsDone, readySinceChange, readyParams, firstLog,
                   everCleared, lastSeedAssign, prev>>

\* entropy -> _entropy
BodyEntropy ==
    /\ AtBody("entropy")
    /\ IF HookImpl(kind, "_entropy") = "abstract"
       THEN EnterAbstract("_entropy")
       ELSE /\ stack' = SetTop(Done(Top, [t |-> "entropy", logits |-> logits_variable]))
            /\ UNCHANGED <<hookLog, outcome>>
    /\ UNCHANGED <<fixedVars, tracked_variables, tracked_variables_checkpoint,
                   logits_variable, first_inference, update_seed, seed,
                   haveGradFn, opsDone, readySinceChange, readyParams, firstLog,
                   everCleared, usedSeeds, lastSeedAssign, prev, opDraws>>

CallReturnsDistributionAlways(inputs) == TRUE

\* `if inputs is None` of _call
CallReturnsDistribution(inputs) == inputs = NoneInput

\* call -> _call
BodyCall ==
    /\ AtBody("call")
    /\ IF HookImpl(kind, "_call") = "abstract"
       THEN EnterAbstract("_call")
       ELSE /\ IF CallReturnsDistribution(Top.arg)
               THEN stack' = SetTop(Done(Top, [t |-> "distribution", of |-> kind]))
               ELSE stack' = CallPublic("sample", Top.arg, "-")
            /\ UNCHANGED <<hookLog, outcome>>
    /\ UNCHANGED <<fixedVars, tracked_variables, tracked_variables_checkpoint,
                   logits_variable, first_inference, update_seed, seed,
                   haveGradFn, opsDone, readySinceChange, readyParams, firstLog,
                   everCleared, usedSeeds, lastSeedAssign, prev, opDraws>>

\* expectation -> _expectation: self.sample(self.num_expectation_samples)
BodyExpectation ==
    /\ AtBody("expectation")
    /\ IF HookImpl(kind, "_expectation") = "abstract"
       THEN EnterAbstract("_expectation")
       ELSE /\ stack' = CallPublic("sample", num_expectation_samples, "-")
            /\ UNCHANGED <<hookLog, outcome>>
    /\ UNCHANGED <<fixedVars, tracked_variables, tracked_variables_checkpoint,
                   logits_variable, first_inference, update_seed, seed,
                   haveGradFn, opsDone, readySinceChange, readyParams, firstLog,
                   everCleared, usedSeeds, lastSeedAssign, prev, opDraws>>

\* The value of _log_partition_forward_pass.
ForwardPass(k, l, p) ==
    IF k = "Analytic"
    THEN [t |-> "log_partition", from |-> l]
    ELSE [t |-> "log_partition",
          from |-> [src |-> "energy_logits", at |-> EnergyLogits(p)]]

\* log_partition -> _log_partition -> _log_partition_forward_pass
BodyLogPartition ==
    /\ AtBody("log_partition")
    /\ IF HookImpl(kind, "_log_partition") = "abstract"
       THEN /\ EnterAbstract("_log_partition")
            /\ UNCHANGED haveGradFn
       ELSE IF HookImpl(kind, "_log_partition_forward_pass") = "abstract"
       THEN /\ EnterAbstract("_log_partition_forward_pass")
            /\ UNCHANGED haveGradFn
       ELSE /\ stack' = SetTop(Done(Top, ForwardPass(kind, logits_variable, tracked_variables)))
            /\ haveGradFn' = TRUE
            /\ UNCHANGED <<hookLog, outcome>>
    /\ UNCHANGED <<fixedVars, tracked_variables, tracked_variables_checkpoint,
                   logits_variable, first_inference, update_seed, seed, opsDone,
                   readySinceChange, readyParams, firstLog, everCleared,
                   usedSeeds, lastSeedAssign, prev, opDraws>>

BodyLogPartitionGradPrivate ==
    /\ AtBody("log_partition_grad")
    /\ stack' = Append(SetTop([Top EXCEPT !.pc = "wait"]),
                       [NewFrame("expectation", 0, "energy_grad") EXCEPT
                           !.pc = "body", !.i = Len(PrefaceProgram) + 1])
    /\ UNCHANGED <<fixedVars, tracked_variables, tracked_variables_checkpoint,
                   logits_variable, first_inference, update_seed, seed, outcome,
                   haveGradFn, opsDone, readySinceChange, readyParams, firstLog,
                   everCleared, usedSeeds, lastSeedAssign, prev, opDraws,
                   hookLog>>

\* grad_fn of _log_partition_grad_generator: self.expectation(energy_grad)
BodyLogPartitionGrad ==
    /\ AtBody("log_partition_grad")
    /\ stack' = CallPublic("expectation", 0, "energy_grad")
    /\ UNCHANGED <<fixedVars, tracked_variables, tracked_variables_checkpoint,
                   logits_variable, first_inference, update_seed, seed, outcome,
                   haveGradFn, opsDone, readySinceChange, readyParams, firstLog,
                   everCleared, usedSeeds, lastSeedAssign, prev, opDraws,
                   hookLog>>

\* What a hook makes of the value its nested public call returned.
Continue(f, r) ==
    CASE f.op = "call" -> r
      [] f.op = "expectation" ->
            [t |-> "average", fn |-> f.fn, samples |-> r, at |-> tracked_variables]
      [] f.op = "log_partition_grad" -> [t |-> "neg_upstream_times", e |-> r]
      [] OTHER -> r

\* A nested public operation returns to the hook that called it.
Return ==
    /\ Depth > 1
    /\ Top.pc = "done"
    /\ stack' = [i \in 1..(Depth - 1) |->
                    IF i = Depth - 1
                    THEN Done(stack[i], Continue(stack[i], Top.result))
                    ELSE stack[i]]
    /\ UNCHANGED <<fixedVars, tracked_variables, tracked_variables_checkpoint,
                   logits_variable, first_inference, update_seed, seed, outcome,
                   haveGradFn, opsDone, readySinceChange, readyParams, firstLog,
                   everCleared, usedSeeds, lastSeedAssign, prev, opDraws,
                   hookLog>>

\* The caller-invoked operation returns to the caller.
Finish ==
    /\ Depth = 1
    /\ Top.pc = "done"
    /\ stack' = <<>>
    /\ outcome' = Top.result
    /\ prev' = [prev EXCEPT ![KeyOf(Top)] = Top.result]
    /\ UNCHANGED <<fixedVars, tracked_variables, tracked_variables_checkpoint,
                   logits_variable, first_inference, update_seed, seed,
                   haveGradFn, opsDone, readySinceChange, readyParams, firstLog,
                   everCleared, usedSeeds, lastSeedAssign, opDraws, hookLog>>

Next ==
    \/ \E v \in ParamValues : MutateParams(v)
    \/ \E i \in UserSeeds \cup {NoneInput}, s \in UserSeeds : SetSeed(i, s)
    \/ \E k \in Keys : Invoke(k[1], k[2], k[3])
    \/ PrefaceFirstCheckpoint
    \/ PrefaceFirstReady
    \/ PrefaceFirstClear
    \/ PrefaceSeed
    \/ PrefaceStale
    \/ BodySample
    \/ BodyEntropy
    \/ BodyCall
    \/ BodyExpectation
    \/ BodyLogPartition
    \/ BodyLogPartitionGrad
    \/ Return
    \/ Finish

Spec == Init /\ [][Next]_vars

(***************************************************************************)
(* Vocabulary of the properties.                                           *)
(***************************************************************************)
\* The wrapped method of a public operation is about to run.
BodyStarts == ~Idle /\ Top.pc = "body" /\ Top.op \in PublicOps

\* The caller-invoked operation has its result and is about to return it.
AtFinish == Depth = 1 /\ Top.pc = "done"

\* Everything a preface can do, in the order of the three steps.
PrefaceEvents ==
    <<"first:ckpt", "first:ready", "first:clear", "seed:split",
      "stale:ckpt", "stale:ready">>

EventIndex(e) == CHOOSE i \in 1..Len(PrefaceEvents) : PrefaceEvents[i] = e

InStepOrder(log) ==
    \A i, j \in 1..Len(log) : i < j => EventIndex(log[i]) < EventIndex(log[j])

FirstBlock == <<"first:ckpt", "first:ready", "first:clear">>

\* C1 as stated: when the body of a public operation starts, the checkpoint
\* equals the current parameters and _ready_inference has been invoked after
\* the most recent parameter change.
C1_ReadyAfterLastChange ==
    BodyStarts => (tracked_variables_checkpoint = tracked_variables /\ readySinceChange)

\* C1, amended: when the body of a public operation starts, the checkpoint
\* equals the current value of the tracked parameters, the most recent
\* _ready_inference ran on parameter values equal to the current ones, and the
\* cached logits of a concrete engine are those of the current parameters.
C1_NoStaleBody ==
    BodyStarts =>
        /\ tracked_variables_checkpoint = tracked_variables
        /\ readyParams = tracked_variables
        /\ kind \in ConcreteKinds => logits_variable = ReadyValue(kind, tracked_variables, NoResult)

\* C1 witness: a body starts right after its preface found the parameters
\* changed and refreshed checkpoint and cache.
C1_Witness ==
    /\ BodyStarts
    /\ kind \in ConcreteKinds
    /\ "stale:ready" \in Range(Top.log)

\* C2: every frame of a public operation that is past its preface has run all
\* five preface statements, and what they did happened in the order first-call
\* initialisation, seed advance, staleness refresh: the first-inference block
\* ran whole iff the flag was set on entry, the seed was split iff the engine
\* is in auto-seed mode, and no parameter differs from the checkpoint.
C2_PrefaceBeforeBody ==
    \A d \in 1..Depth :
        (stack[d].op \in PublicOps /\ stack[d].pc # "preface") =>
            /\ stack[d].i = Len(PrefaceProgram) + 1
            /\ InStepOrder(stack[d].log)
            /\ stack[d].first =>
                  /\ Len(stack[d].log) >= 3
                  /\ SubSeq(stack[d].log, 1, 3) = FirstBlock
            /\ ~stack[d].first => Range(stack[d].log) \cap Range(FirstBlock) = {}
            /\ update_seed <=> "seed:split" \in Range(stack[d].log)
            /\ ~VariablesUpdated(checkpoint, tracked_variables, tracked_variables_checkpoint)

\* C2 witness: a body starts after a preface that both advanced the seed and
\* refreshed the stale checkpoint.
C2_Witness ==
    /\ BodyStarts
    /\ Top.log = <<"seed:split", "stale:ckpt", "stale:ready">>

\* C3: the first preface checkpoints the current parameters, then invokes
\* _ready_inference, then clears the first-inference flag; while the flag is
\* set only a prefix of that sequence has happened, once it is clear exactly
\* that sequence has happened, and a cleared flag is never set again.
C3_FirstInference ==
    /\ everCleared => ~first_inference
    /\ ~first_inference => firstLog = <<"ckpt", "ready", "clear">>
    /\ first_inference => firstLog \in {<<>>, <<"ckpt">>, <<"ckpt", "ready">>}
    /\ (first_inference /\ Len(firstLog) >= 1) => tracked_variables_checkpoint = tracked_variables
    /\ (first_inference /\ Len(firstLog) >= 2) => readyParams = tracked_variables

\* C3 witness: after the flag was cleared, the parameters were mutated, the
\* seed was assigned and a later operation is running its body.
C3_Witness ==
    /\ ~first_inference
    /\ BodyStarts
    /\ ~Top.first
    /\ lastSeedAssign[1] = "setter"
    /\ "stale:ready" \in Range(Top.log)

\* C4: in auto-seed mode the seed a body runs with is the split of the seed
\* the operation was entered with, and _sample never reads a seed that an
\* earlier _sample read since the last seed assignment.
C4_AutoSeedFresh ==
    (BodyStarts /\ update_seed) =>
        /\ seed = SplitSeed(Top.entrySeed)
        /\ Top.op = "sample" => seed \notin usedSeeds

\* C4 witness: in auto-seed mode a sample body starts after an earlier sample
\* ran, with no seed assignment in between.
C4_Witness ==
    /\ BodyStarts
    /\ update_seed
    /\ Top.op = "sample"
    /\ Depth = 1
    /\ prev[<<"sample", Top.arg, "-">>] # NoResult
    /\ usedSeeds # {}

\* C5: in fixed-seed mode no operation changes the seed, and an operation
\* that ran before with the same arguments, no parameter change or seed
\* assignment since, returns the same result again.
C5_FixedSeedRepeats ==
    ~update_seed =>
        /\ \A d \in 1..Depth : seed = stack[d].entrySeed
        /\ (AtFinish /\ prev[KeyOf(Top)] # NoResult) =>
              Top.result = prev[KeyOf(Top)]

\* C5 witness: in fixed-seed mode an expectation that ran before is about to
\* return again.
C5_Witness ==
    /\ ~update_seed
    /\ AtFinish
    /\ Top.op = "expectation"
    /\ prev[KeyOf(Top)] # NoResult

\* C6: the auto-advance flag is on exactly when the last value given to the
\* constructor or to the seed setter was None, whatever operations ran since.
C6_SeedProtocol == update_seed <=> (lastSeedAssign[2] = NoneInput)

\* C6 witness: the setter was given a concrete seed and an operation has run
\* to its result since, with auto-advance still off.
C6_Witness ==
    /\ lastSeedAssign[1] = "setter"
    /\ lastSeedAssign[2] # NoneInput
    /\ AtFinish
    /\ ~update_seed

\* Public operations entered by one caller-invoked operation.
PrefaceRuns(f) ==
    CASE f.op = "expectation" -> 2
      [] f.op = "log_partition_grad" -> 2
      [] f.op = "call" -> IF f.arg = NoneInput THEN 1 ELSE 2
      [] OTHER -> 1

\* C7 as stated: in auto-seed mode every caller-invoked operation leaves the
\* seed exactly one split after the seed it was entered with.
C7_OneSplitPerCallerOp ==
    (AtFinish /\ update_seed) => seed = SplitN(Top.entrySeed, 1)

\* C7, amended: in auto-seed mode the seed is split once per preface run, so
\* a caller-invoked operation leaves the seed one split on per public operation
\* entered: one for sample, entropy, log_partition and call(None), two for
\* expectation, call(n) and the backward pass of log_partition.
C7_OneSplitPerPreface ==
    (AtFinish /\ update_seed) =>
        seed = SplitN(Top.entrySeed, PrefaceRuns(Top))

\* C7 witness: in auto-seed mode an expectation is about to return.
C7_Witness == AtFinish /\ update_seed /\ Top.op = "expectation"

\* C8: call(None) on a concrete engine returns the distribution object and
\* draws nothing; call(n) returns what the one sample(n) it ran returned.
C8_Call ==
    (AtFinish /\ Top.op = "call") =>
        IF Top.arg = NoneInput
        THEN Top.result = [t |-> "distribution", of |-> kind] /\ opDraws = 0
        ELSE Top.result = SampleValue(Top.arg, seed, logits_variable) /\ opDraws = 1

\* C8 witness: call(n) is about to return on an engine whose call(None) has
\* returned before.
C8_Witness ==
    /\ AtFinish
    /\ Top.op = "call"
    /\ Top.arg # NoneInput
    /\ prev[<<"call", NoneInput, "-">>] # NoResult

\* C9 as stated: every abstract hook body that is entered ends in an error.
C9_AbstractHooksRaise == \A e \in hookLog : e[2] = "NotImplementedError"

(***************************************************************************)
(* The forward pass of EnergyInference._expectation, _inner_expectation,   *)
(* on its own: the batch self.sample returns is any batch of the requested *)
(* size, the function is one of a family of integer-valued functions of    *)
(* the bitstring, and averages are exact fractions <<numerator,            *)
(* denominator>>.                                                          *)
(***************************************************************************)
Bitstrings == [1..NumBits -> {0, 1}]

RECURSIVE BitsValue(_, _)
BitsValue(x, n) == IF n = 0 THEN 0 ELSE 2 * BitsValue(x, n - 1) + x[n]

RECURSIVE Ones(_, _)
Ones(x, n) == IF n = 0 THEN 0 ELSE Ones(x, n - 1) + x[n]

\* The functions handed to expectation: f_k(x) = k * value(x) + ones(x) for
\* k >= 0, and the constant function of value c for the code -c.
FunctionValue(k, x) ==
    IF k < 0 THEN -k ELSE k * BitsValue(x, NumBits) + Ones(x, NumBits)

Position(q, x) == CHOOSE i \in 1..Len(q) : q[i] = x

\* utils.unique_bitstrings_with_counts: the distinct rows in order of first
\* occurrence, each row's index among them, and each distinct row's count.
RECURSIVE UniqueRows(_)
UniqueRows(rows) ==
    IF rows = <<>> THEN <<>>
    ELSE LET front == UniqueRows(SubSeq(rows, 1, Len(rows) - 1))
             last == rows[Len(rows)]
         IN  IF last \in Range(front) THEN front ELSE Append(front, last)

UniqueBitstringsWithCounts(rows) ==
    LET y == UniqueRows(rows)
    IN  [y |-> y,
         idx |-> [k \in 1..Len(rows) |-> Position(y, rows[k])],
         count |-> [i \in 1..Len(y) |->
                       Cardinality({k \in 1..Len(rows) : rows[k] = y[i]})]]

RECURSIVE Dot(_, _, _)
Dot(a, b, n) == IF n = 0 THEN 0 ELSE Dot(a, b, n - 1) + a[n] * b[n]

RECURSIVE SumSeq(_, _)
SumSeq(a, n) == IF n = 0 THEN 0 ELSE SumSeq(a, n - 1) + a[n]

\* utils.weighted_average: tensordot(counts, values) / reduce_sum(counts).
WeightedAverage(counts, values) ==
    <<Dot(counts, values, Len(counts)), SumSeq(counts, Len(counts))>>

AverageOfValuesUnweighted(counts, values) ==
    WeightedAverage([i \in 1..Len(counts) |-> 1], values)

\* average_of_values = weighted_average(counts, function(bitstrings))
AverageOfValues(counts, values) == WeightedAverage(counts, values)

\* The variables of the engine.
engineOnly == <<kind, checkpoint, tracked_variables,
                tracked_variables_checkpoint, logits_variable, first_inference,
                update_seed, seed, num_expectation_samples, stack, outcome,
                haveGradFn, opsDone, readySinceChange, readyParams, firstLog,
                everCleared, usedSeeds, lastSeedAssign, prev, opDraws, hookLog>>

engineSide == <<engineOnly, qhbm, bwd, rc, pf>>

\* An Analytic engine as constructed, with no seed given, on which no
\* operation runs.
EngineAtRest ==
    /\ kind = "Analytic"
    /\ checkpoint = TRUE
    /\ tracked_variables = [i \in 1..ParamLen |-> 0]
    /\ tracked_variables_checkpoint = tracked_variables
    /\ logits_variable = InitLogits(kind, tracked_variables)
    /\ first_inference = TRUE
    /\ update_seed = TRUE
    /\ seed = 0
    /\ lastSeedAssign = <<"__init__", NoneInput>>
    /\ stack = <<>>
    /\ outcome = NoResult
    /\ haveGradFn = FALSE
    /\ opsDone = 0
    /\ readySinceChange = FALSE
    /\ readyParams = NoResult
    /\ firstLog = <<>>
    /\ everCleared = FALSE
    /\ usedSeeds = {}
    /\ prev = [k \in Keys |-> NoResult]
    /\ opDraws = 0
    /\ hookLog = {}

ForwardInit ==
    /\ EngineAtRest
    /\ num_expectation_samples \in 1..MaxDraws
    /\ qhbm = NoResult
    /\ bwd = NoResult
    /\ rc = NoResult
    /\ pf = NoResult
    /\ \E k \in 0..MaxFn :
          fwd = [pc |-> "start", fn |-> k, samples |-> <<>>, bitstrings |-> <<>>,
                 counts |-> <<>>, values |-> <<>>, calls |-> 0,
                 average |-> <<0, 0>>]

\* samples = tf.stop_gradient(self.sample(self.num_expectation_samples))
ForwardSample ==
    /\ fwd.pc = "start"
    /\ \E batch \in [1..num_expectation_samples -> Bitstrings] :
          fwd' = [fwd EXCEPT !.pc = "sampled", !.samples = batch]
    /\ UNCHANGED engineSide

\* bitstrings, _, counts = utils.unique_bitstrings_with_counts(samples)
ForwardUnique ==
    /\ fwd.pc = "sampled"
    /\ LET u == UniqueBitstringsWithCounts(fwd.samples)
       IN  fwd' = [fwd EXCEPT !.pc = "unique", !.bitstrings = u.y,
                              !.counts = u.count]
    /\ UNCHANGED engineSide

\* values = function(bitstrings)
ForwardValues ==
    /\ fwd.pc = "unique"
    /\ fwd' = [fwd EXCEPT !.pc = "values",
                          !.values = [i \in 1..Len(fwd.bitstrings) |->
                                         FunctionValue(fwd.fn, fwd.bitstrings[i])],
                          !.calls = fwd.calls + Len(fwd.bitstrings)]
    /\ UNCHANGED engineSide

\* average_of_values = weighted_average(counts, values)
ForwardAverage ==
    /\ fwd.pc = "values"
    /\ fwd' = [fwd EXCEPT !.pc = "done",
                          !.average = AverageOfValues(fwd.counts, fwd.values)]
    /\ UNCHANGED engineSide

ForwardNext ==
    \/ ForwardSample
    \/ ForwardUnique
    \/ ForwardValues
    \/ ForwardAverage

SpecForward == ForwardInit /\ [][ForwardNext]_vars

\* The sum of f over the drawn samples, each taken as often as it was drawn.
RECURSIVE SumOverSamples(_, _, _)
SumOverSamples(k, rows, n) ==
    IF n = 0 THEN 0
    ELSE SumOverSamples(k, rows, n - 1) + FunctionValue(k, rows[n])

\* C10: the forward pass draws num_expectation_samples samples, evaluates the
\* function once per distinct bitstring drawn, and returns a fraction equal
\* to the plain average of the function over all the samples drawn.
C10_ForwardAverage ==
    fwd.pc = "done" =>
        /\ Len(fwd.samples) = num_expectation_samples
        /\ Len(fwd.bitstrings) = Cardinality(Range(fwd.samples))
        /\ fwd.calls = Cardinality(Range(fwd.samples))
        /\ fwd.average[2] > 0
        /\ fwd.average[1] * Len(fwd.samples) =
              SumOverSamples(fwd.fn, fwd.samples, Len(fwd.samples)) * fwd.average[2]

\* C10 witness: a finished forward pass over a batch that repeats one
\* bitstring and holds another, on which the function differs.
C10_Witness ==
    /\ fwd.pc = "done"
    /\ Len(fwd.bitstrings) = 2
    /\ Len(fwd.samples) = 3
    /\ fwd.values[1] # fwd.values[2]

(***************************************************************************)
(* QHBM: an energy inference engine and a quantum inference object held    *)
(* together.  The two objects are known by their identities; the batch     *)
(* the engine's sample returns is any batch of the requested size.  The    *)
(* caller is sequential: it calls a method once the last one has returned. *)
(***************************************************************************)
EbmObjects == {"ebm1", "ebm2"}
QnnObjects == {"qnn1", "qnn2"}
Names == {"qhbm1", "qhbm2"}
Observables == {"obs1", "obs2"}

\* The read-only properties `energy` of an engine and `circuit` of a quantum
\* inference object.
EnergyOf(ebm) == [t |-> "energy", of |-> ebm]
CircuitOf(qnn) == [t |-> "circuit", of |-> qnn]

\* hamiltonian.Hamiltonian(energy, circuit)
Hamiltonian(energy, circuit) == [energy |-> energy, circuit |-> circuit]

\* QHBM.__init__ and the properties ebm, qnn, modular_hamiltonian.
QHBM(input_ebm, input_qnn, name) ==
    [ebm |-> input_ebm, qnn |-> input_qnn, name |-> name,
     modular_hamiltonian |-> Hamiltonian(EnergyOf(input_ebm),
                                         CircuitOf(input_qnn))]

\* modular_hamiltonian.circuit(bitstrings): one state per row.
CircuitStates(circuit, bitstrings) ==
    [i \in 1..Len(bitstrings) |->
        [t |-> "state", circuit |-> circuit, bitstring |-> bitstrings[i]]]

CircuitsPerSample(self, samples) ==
    [states |-> CircuitStates(self.modular_hamiltonian.circuit, samples),
     counts |-> [i \in 1..Len(samples) |-> 1]]

\* QHBM.circuits, after samples = self.ebm.sample(num_samples).
Circuits(self, samples) ==
    LET u == UniqueBitstringsWithCounts(samples)
    IN  [states |-> CircuitStates(self.modular_hamiltonian.circuit, u.y),
         counts |-> u.count]

ExpectationCallOnQnn(self, observables) ==
    [target |-> self.qnn, op |-> "expectation",
     function |-> [t |-> "partial", of |-> <<self.ebm, "expectation">>,
                   observables |-> observables]]

\* QHBM.expectation: self.ebm.expectation(
\*     functools.partial(self.qnn.expectation, observables=observables))
ExpectationCall(self, observables) ==
    [target |-> self.ebm, op |-> "expectation",
     function |-> [t |-> "partial", of |-> <<self.qnn, "expectation">>,
                   observables |-> observables]]

exceptQhbm == <<engineOnly, fwd, bwd, rc, pf>>

QhbmInit ==
    /\ EngineAtRest
    /\ num_expectation_samples = 1
    /\ fwd = NoResult
    /\ bwd = NoResult
    /\ rc = NoResult
    /\ pf = NoResult
    /\ \E input_ebm \in EbmObjects, input_qnn \in QnnObjects, name \in Names :
          qhbm = [self |-> QHBM(input_ebm, input_qnn, name),
                  args |-> <<input_ebm, input_qnn, name>>,
                  op |-> "__init__", input |-> NoResult, call |-> NoResult,
                  samples |-> <<>>, result |-> NoResult, returned |-> FALSE]

\* No method of the QHBM is running.
QhbmIdle == qhbm.op \in {"__init__", "idle"}

QhbmCircuits(num_samples) ==
    /\ QhbmIdle
    /\ \E samples \in [1..num_samples -> Bitstrings] :
          qhbm' = [qhbm EXCEPT
                      !.op = "circuits", !.input = num_samples,
                      !.call = [target |-> qhbm.self.ebm, op |-> "sample",
                                n |-> num_samples],
                      !.samples = samples,
                      !.result = Circuits(qhbm.self, samples)]
    /\ UNCHANGED exceptQhbm

QhbmExpectation(observables) ==
    /\ QhbmIdle
    /\ qhbm' = [qhbm EXCEPT
                   !.op = "expectation", !.input = observables,
                   !.call = ExpectationCall(qhbm.self, observables),
                   !.samples = <<>>,
                   !.result = [t |-> "returned", by |-> qhbm.self.ebm]]
    /\ UNCHANGED exceptQhbm

\* The running method returns its result to the caller.
QhbmReturn ==
    /\ ~QhbmIdle
    /\ qhbm' = [qhbm EXCEPT !.op = "idle", !.input = NoResult,
                            !.call = NoResult, !.samples = <<>>,
                            !.result = NoResult, !.returned = TRUE]
    /\ UNCHANGED exceptQhbm

QhbmNext ==
    \/ \E num_samples \in 0..MaxDraws : QhbmCircuits(num_samples)
    \/ \E observables \in Observables : QhbmExpectation(observables)
    \/ QhbmReturn

SpecQhbm == QhbmInit /\ [][QhbmNext]_vars

\* How often row x occurs in a batch.
Occurrences(rows, x) == Cardinality({k \in 1..Len(rows) : rows[k] = x})

\* C11: circuits(num_samples) returns one state per distinct bitstring of
\* the batch the engine sampled, the distinct bitstrings are pairwise
\* different, every count is at least one and is the number of times its
\* bitstring was sampled, and the counts sum to num_samples.
C11_CircuitsCounts ==
    qhbm.op = "circuits" =>
        LET states == qhbm.result.states
            counts == qhbm.result.counts
        IN  /\ Len(qhbm.samples) = qhbm.input
            /\ Len(states) = Cardinality(Range(qhbm.samples))
            /\ Len(counts) = Len(states)
            /\ \A i, j \in 1..Len(states) :
                  i # j => states[i].bitstring # states[j].bitstring
            /\ \A i \in 1..Len(states) :
                  /\ states[i].bitstring \in Range(qhbm.samples)
                  /\ states[i].circuit = CircuitOf(qhbm.args[2])
                  /\ counts[i] >= 1
                  /\ counts[i] = Occurrences(qhbm.samples, states[i].bitstring)
            /\ SumSeq(counts, Len(counts)) = qhbm.input

\* C11 witness: circuits has returned for a batch of three samples that holds
\* one bitstring twice and another once.
C11_Witness ==
    /\ qhbm.op = "circuits"
    /\ qhbm.input = 3
    /\ Len(qhbm.result.counts) = 2
    /\ qhbm.result.counts[1] = 2

\* C20: a QHBM exposes the engine, the quantum inference object and the name
\* it was constructed with, whatever operations have run; its modular
\* Hamiltonian pairs that engine's energy with that object's circuit; and
\* expectation is a call of the engine's public expectation, on the quantum
\* object's expectation with the observables bound.
C20_QhbmFrame ==
    /\ qhbm.self.ebm = qhbm.args[1]
    /\ qhbm.self.qnn = qhbm.args[2]
    /\ qhbm.self.name = qhbm.args[3]
    /\ qhbm.self.modular_hamiltonian.energy = EnergyOf(qhbm.args[1])
    /\ qhbm.self.modular_hamiltonian.circuit = CircuitOf(qhbm.args[2])
    /\ qhbm.op = "expectation" =>
          /\ qhbm.call.target = qhbm.args[1]
          /\ qhbm.call.op = "expectation"
          /\ qhbm.call.function.of = <<qhbm.args[2], "expectation">>
          /\ qhbm.call.function.observables = qhbm.input
          /\ qhbm.result = [t |-> "returned", by |-> qhbm.args[1]]

\* C20 witness: expectation has run on a QHBM on which a method had run and
\* returned before.
C20_Witness ==
    /\ qhbm.op = "expectation"
    /\ qhbm.returned
    /\ qhbm.args = <<"ebm2", "qnn1", "qhbm2">>
    /\ qhbm.input = "obs2"

(***************************************************************************)
(* The backward pass of EnergyInference._expectation, grad_fn, on its own. *)
(* The function handed to expectation is a list of components f_i; each    *)
(* may read the energy's parameters: around the current parameters theta0  *)
(* f_k(x) = FunctionValue(k, x) + k * sum_j (theta_j - theta0_j) * x[j],   *)
(* so its value is FunctionValue(k, x) and its derivative in theta_j is    *)
(* k * x[j].  There is one energy parameter per bit.  Every quantity is an *)
(* exact fraction <<numerator, denominator>>.                              *)
(***************************************************************************)
\* The lists of function components and the upstream values per component.
FunctionLists ==
    {<<k>> : k \in 0..MaxFn} \cup {<<k, MaxFn - k>> : k \in 0..MaxFn}
        \cup {<<-MaxFn>>, <<-1, -MaxFn>>}
UpstreamValues == {-1, 0, 1}

\* d f_k(x) / d theta_j, as the values tape records it; a constant function
\* is unconnected to the variables (UnconnectedGradients.ZERO).
FunctionJacobian(k, j, x) == IF k < 0 THEN 0 ELSE k * x[j]

\* d E(x) / d theta_j of tape.jacobian(self.energy(bitstrings), variables),
\* for the spin energy E(x) = sum_j theta_j * (1 - 2 * x[j]).
EnergyJacobian(j, x) == 1 - 2 * x[j]

FracMul(a, b) == <<a[1] * b[1], a[2] * b[2]>>
FracAdd(a, b) == <<a[1] * b[2] + b[1] * a[2], a[2] * b[2]>>
FracSub(a, b) == <<a[1] * b[2] - b[1] * a[2], a[2] * b[2]>>
FracEq(a, b) == a[1] * b[2] = b[1] * a[2]

\* The sum of a sequence of fractions.
RECURSIVE FracSum(_, _)
FracSum(q, n) == IF n = 0 THEN <<0, 1>> ELSE FracAdd(FracSum(q, n - 1), q[n])

\* function(bitstrings): per component, its value at every row.
Values(bitstrings, fns) ==
    [i \in 1..Len(fns) |->
        [x \in 1..Len(bitstrings) |-> FunctionValue(fns[i], bitstrings[x])]]

\* i_sum_dg_dfi_times_fi: sum over i of dg_dfi[i] * <f_i>.
SumDgDfiTimesFi(dg_dfi, fi) ==
    FracSum([i \in 1..Len(fi) |-> FracMul(<<dg_dfi[i], 1>>, fi[i])], Len(fi))

FirstSummandUnweighted(counts, energies_grads, dg_dfi, fi) ==
    FracMul(WeightedAverage([x \in 1..Len(counts) |-> 1], energies_grads),
            SumDgDfiTimesFi(dg_dfi, fi))

\* first_summand = average_of_energies_grads * i_sum_dg_dfi_times_fi
FirstSummand(counts, energies_grads, dg_dfi, fi) ==
    FracMul(WeightedAverage(counts, energies_grads),
            SumDgDfiTimesFi(dg_dfi, fi))

\* combined_sum: at every row x, the sum over i of dg_dfi[i] * f_i(x).
CombinedSum(dg_dfi, fi_x, n) ==
    [x \in 1..n |->
        SumSeq([i \in 1..Len(fi_x) |-> dg_dfi[i] * fi_x[i][x]], Len(fi_x))]

\* middle_summand = weighted_average(counts,
\*     einsum("i...,i->i...", energies_grads, combined_sum))
MiddleSummand(counts, energies_grads, dg_dfi, fi_x) ==
    LET combined_sum == CombinedSum(dg_dfi, fi_x, Len(counts))
    IN  WeightedAverage(counts,
            [x \in 1..Len(counts) |-> energies_grads[x] * combined_sum[x]])

\* last_summand = values_tape.gradient(average_of_values, variables,
\*     output_gradients=upstream): the chain rule through
\* weighted_average(counts, function(bitstrings)).
LastSummand(counts, values_grads, upstream) ==
    FracSum([i \in 1..Len(upstream) |->
                FracMul(<<upstream[i], 1>>,
                        WeightedAverage(counts, values_grads[i]))],
            Len(upstream))

CombineAllAdded(fs, ms, ls) == FracAdd(FracAdd(fs, ms), ls)

\* fs - ms + ls
Combine(fs, ms, ls) == FracAdd(FracSub(fs, ms), ls)

\* grad_fn(*upstream, variables), for the variable theta_j.
GradFn(j, upstream, bitstrings, counts, fns) ==
    LET dg_dfi == upstream
        energies_grads == [x \in 1..Len(bitstrings) |->
                              EnergyJacobian(j, bitstrings[x])]
        values == Values(bitstrings, fns)
        fi == [i \in 1..Len(fns) |-> AverageOfValues(counts, values[i])]
        values_grads == [i \in 1..Len(fns) |->
                            [x \in 1..Len(bitstrings) |->
                                FunctionJacobian(fns[i], j, bitstrings[x])]]
        fs == FirstSummand(counts, energies_grads, dg_dfi, fi)
        ms == MiddleSummand(counts, energies_grads, dg_dfi, values)
        ls == LastSummand(counts, values_grads, upstream)
    IN  [first_summand |-> fs, middle_summand |-> ms, last_summand |-> ls,
         grad |-> Combine(fs, ms, ls)]

exceptBwd == <<engineOnly, fwd, qhbm, rc, pf>>

BackwardInit ==
    /\ EngineAtRest
    /\ num_expectation_samples \in 1..MaxDraws
    /\ fwd = NoResult
    /\ qhbm = NoResult
    /\ rc = NoResult
    /\ pf = NoResult
    /\ \E fns \in FunctionLists :
          bwd = [pc |-> "start", fns |-> fns, samples |-> <<>>,
                 bitstrings |-> <<>>, counts |-> <<>>, upstream |-> <<>>,
                 grads |-> <<>>]

\* _inner_expectation: the forward pass, keeping bitstrings and counts for
\* grad_fn.
BackwardForward ==
    /\ bwd.pc = "start"
    /\ \E batch \in [1..num_expectation_samples -> Bitstrings] :
          LET u == UniqueBitstringsWithCounts(batch)
          IN  bwd' = [bwd EXCEPT !.pc = "forward", !.samples = batch,
                                 !.bitstrings = u.y, !.counts = u.count]
    /\ UNCHANGED exceptBwd

\* grad_fn(*upstream, variables): one gradient per variable.
BackwardGrad ==
    /\ bwd.pc = "forward"
    /\ \E upstream \in [1..Len(bwd.fns) -> UpstreamValues] :
          bwd' = [bwd EXCEPT
                     !.pc = "backward", !.upstream = upstream,
                     !.grads = [j \in 1..NumBits |->
                                   GradFn(j, upstream, bwd.bitstrings,
                                          bwd.counts, bwd.fns)]]
    /\ UNCHANGED exceptBwd

BackwardNext ==
    \/ BackwardForward
    \/ BackwardGrad

SpecBackward == BackwardInit /\ [][BackwardNext]_vars

\* Sums over the samples drawn, each taken as often as it was drawn: of the
\* energy derivative, of the upstream-weighted function value, of their
\* product, and of the upstream-weighted function derivative.
RECURSIVE UpstreamDot(_, _, _, _)
UpstreamDot(upstream, fns, x, n) ==
    IF n = 0 THEN 0
    ELSE UpstreamDot(upstream, fns, x, n - 1) +
         upstream[n] * FunctionValue(fns[n], x)

RECURSIVE UpstreamDotJacobian(_, _, _, _, _)
UpstreamDotJacobian(upstream, fns, j, x, n) ==
    IF n = 0 THEN 0
    ELSE UpstreamDotJacobian(upstream, fns, j, x, n - 1) +
         upstream[n] * FunctionJacobian(fns[n], j, x)

RECURSIVE SampleSum(_, _)
SampleSum(q, n) == IF n = 0 THEN 0 ELSE SampleSum(q, n - 1) + q[n]

\* C12: for every parameter j the backward pass returns Term1 - Term2 +
\* Term3, where over the m samples drawn Term1 = mean(dE/dtheta_j) *
\* sum_i upstream_i * mean(f_i), Term2 = mean(dE/dtheta_j * sum_i upstream_i
\* * f_i) and Term3 = sum_i upstream_i * mean(d f_i / d theta_j); each term
\* is linear in the upstream gradient.
C12_BackwardTerms ==
    bwd.pc = "backward" =>
        LET m == Len(bwd.samples)
            n == Len(bwd.fns)
            up == bwd.upstream
        IN  \A j \in 1..NumBits :
              LET dE == [s \in 1..m |-> EnergyJacobian(j, bwd.samples[s])]
                  uf == [s \in 1..m |->
                            UpstreamDot(up, bwd.fns, bwd.samples[s], n)]
                  ud == [s \in 1..m |->
                            UpstreamDotJacobian(up, bwd.fns, j,
                                                bwd.samples[s], n)]
                  term1 == <<SampleSum(dE, m) * SampleSum(uf, m), m * m>>
                  term2 == <<SampleSum([s \in 1..m |-> dE[s] * uf[s]], m), m>>
                  term3 == <<SampleSum(ud, m), m>>
                  g == bwd.grads[j]
              IN  /\ g.grad[2] # 0
                  /\ FracEq(g.first_summand, term1)
                  /\ FracEq(g.middle_summand, term2)
                  /\ FracEq(g.last_summand, term3)
                  /\ FracEq(g.grad, FracAdd(FracSub(term1, term2), term3))

\* C12 witness: a backward pass over a batch with a repeated bitstring, two
\* function components and non-zero upstream, in which all three terms are
\* non-zero for some parameter.
C12_Witness ==
    /\ bwd.pc = "backward"
    /\ Len(bwd.fns) = 2
    /\ Len(bwd.samples) = 3
    /\ Len(bwd.bitstrings) = 2
    /\ \E j \in 1..NumBits :
          /\ bwd.grads[j].first_summand[1] # 0
          /\ bwd.grads[j].middle_summand[1] # 0
          /\ bwd.grads[j].last_summand[1] # 0
          /\ ~FracEq(bwd.grads[j].first_summand, bwd.grads[j].middle_summand)

(***************************************************************************)
(* The backward pass of log_partition, within Spec.                        *)
(***************************************************************************)
\* The backward pass of log_partition is running and has called out.
InLogPartitionGrad == Depth >= 2 /\ stack[1].op = "log_partition_grad"

\* C13: the backward pass of log_partition calls the public expectation of
\* the energy's gradient, whose preface has run when its body starts (the
\* seed was split in auto-seed mode, checkpoint and cache are those of the
\* current parameters), and returns minus the upstream gradient times the
\* average that expectation returned, taken at the current parameters over a
\* batch drawn with the seed and cache the preface left.
C13_LogPartitionGrad ==
    /\ InLogPartitionGrad =>
          /\ stack[2].op = "expectation"
          /\ stack[2].fn = "energy_grad"
          /\ stack[2].pc # "preface" =>
                /\ update_seed <=> "seed:split" \in Range(stack[2].log)
                /\ stack[2].first <=> "first:ready" \in Range(stack[2].log)
                /\ tracked_variables_checkpoint = tracked_variables
                /\ readyParams = tracked_variables
    /\ (AtFinish /\ Top.op = "log_partition_grad") =>
          /\ Top.result =
                [t |-> "neg_upstream_times",
                 e |-> [t |-> "average", fn |-> "energy_grad",
                        samples |-> SampleValue(num_expectation_samples, seed,
                                                logits_variable),
                        at |-> tracked_variables]]
          /\ logits_variable = ReadyValue(kind, tracked_variables, NoResult)
          /\ update_seed => seed = SplitN(Top.entrySeed, 2)
          /\ opDraws = 1

\* C13 witness: the expectation called by a backward pass has its result,
\* after a preface that split the seed and, the parameters having changed
\* since the forward pass, refreshed checkpoint and cache.
C13_Witness ==
    /\ InLogPartitionGrad
    /\ Depth = 2
    /\ stack[2].pc = "done"
    /\ stack[2].result.t = "average"
    /\ "seed:split" \in Range(stack[2].log)
    /\ "stale:ready" \in Range(stack[2].log)

(***************************************************************************)
(* The relaxed-categorical utilities of ebm_utils, on their own: a mixture *)
(* of the empirical categorical over the observed samples and the uniform  *)
(* distribution over all bitstrings.  Logarithms are fixed-point numbers   *)
(* with three decimals; every other quantity is an exact fraction in       *)
(* lowest terms.  The observed batch is any non-empty batch of at most     *)
(* MaxDraws rows of RcBits bits.                                           *)
(***************************************************************************)
RcBits == 1
MaxQuery == 2
MaxResamples == 2

RcBitstrings == [1..RcBits -> {0, 1}]

RECURSIVE Pow2(_)
Pow2(n) == IF n = 0 THEN 1 ELSE 2 * Pow2(n - 1)

\* tf.math.log of the integers 1..17, times 1000.
Log(n) ==
    <<0, 693, 1099, 1386, 1609, 1792, 1946, 2079, 2197, 2303, 2398, 2485,
      2565, 2639, 2708, 2773, 2833>>[n]

\* The base-2 logarithm of the integers 1..17, times 1000.
Log2(n) ==
    <<0, 1000, 1585, 2000, 2322, 2585, 2807, 3000, 3170, 3322, 3459, 3585,
      3700, 3807, 3907, 4000, 4087>>[n]

RECURSIVE GCD(_, _)
GCD(a, b) == IF b = 0 THEN a ELSE GCD(b, a % b)

Abs(a) == IF a < 0 THEN -a ELSE a

\* A fraction in lowest terms, with a positive denominator.
Norm(f) ==
    LET g == GCD(Abs(f[1]), Abs(f[2]))
        sign == IF f[2] < 0 THEN -1 ELSE 1
    IN  <<sign * (f[1] \div g), sign * (f[2] \div g)>>

FracLess(a, b) == a[1] * b[2] < b[1] * a[2]
FracLeq(a, b) == a[1] * b[2] <= b[1] * a[2]

LogSumExpBitsOnly(num_bits) == Log(Pow2(num_bits))

\* tf.math.reduce_logsumexp([num_bits * log(2.0), 0.0]):
\* log(exp(num_bits * log 2) + exp(0)) = log(2^num_bits + 1).
LogSumExpBits(num_bits) == Log(Pow2(num_bits) + 1)

RelaxedCategoricalRatioShifted(num_bits, num_unique) ==
    Norm(<<Log(num_unique + 2), LogSumExpBits(num_bits)>>)

\* _relaxed_categorical_ratio
RelaxedCategoricalRatio(num_bits, num_unique) ==
    Norm(<<Log(num_unique + 1), LogSumExpBits(num_bits)>>)

NumBitsOfRows(category_samples) == Len(category_samples)

\* tf.shape(category_samples)[1]
NumBitsOf(category_samples) == Cardinality(DOMAIN category_samples[1])

GetBitstringIndexFirst(unique_samples, bitstring) ==
    IF bitstring \in Range(unique_samples)
    THEN Position(unique_samples, bitstring)
    ELSE 1

\* get_bitstring_index: the index of the row among the unique samples, or
\* the index after the last of them.
GetBitstringIndex(unique_samples, bitstring) ==
    IF bitstring \in Range(unique_samples)
    THEN Position(unique_samples, bitstring)
    ELSE Len(unique_samples) + 1

\* relaxed_categorical_probabilities
RelaxedCategoricalProbabilities(category_samples, input_samples) ==
    LET u == UniqueBitstringsWithCounts(category_samples)
        unique_samples == u.y
        counts == u.count
        normalizing_constant == SumSeq(counts, Len(counts))
        categorical_probs ==
            [i \in 1..Len(counts) |-> <<counts[i], normalizing_constant>>]
        num_unique_samples == Len(unique_samples)
        num_bits == NumBitsOf(category_samples)
        categorical_weight ==
            RelaxedCategoricalRatio(num_bits, num_unique_samples)
        expanded_categorical_probs ==
            [i \in 1..(num_unique_samples + 1) |->
                IF i <= num_unique_samples
                THEN FracMul(categorical_weight, categorical_probs[i])
                ELSE <<0, 1>>]
        uniform_probs == <<1, Pow2(num_bits)>>
        expanded_uniform_probs ==
            [i \in 1..(num_unique_samples + 1) |->
                FracMul(FracSub(<<1, 1>>, categorical_weight), uniform_probs)]
        possible_probs ==
            [i \in 1..(num_unique_samples + 1) |->
                Norm(FracAdd(Norm(expanded_categorical_probs[i]),
                             Norm(expanded_uniform_probs[i])))]
        all_indices ==
            [k \in 1..Len(input_samples) |->
                GetBitstringIndex(unique_samples, input_samples[k])]
    IN  [k \in 1..Len(input_samples) |-> possible_probs[all_indices[k]]]

\* The values a coin of tfp.distributions.Bernoulli(probs=[p]) can take.
CoinOutcomes(p) ==
    {v \in {0, 1} : (v = 1 => p[1] > 0) /\ (v = 0 => FracLess(p, <<1, 1>>))}

\* The loop over the distinct coin rows: [rows that are 0, rows that are 1].
RECURSIVE ResampleLoop(_, _, _)
ResampleLoop(resample_choices_samples, resample_choices_counts, n) ==
    IF n = 0 THEN <<0, 0>>
    ELSE LET r == ResampleLoop(resample_choices_samples,
                               resample_choices_counts, n - 1)
             a == IF resample_choices_samples[n][1] = 0
                  THEN <<r[1] + resample_choices_counts[n], r[2]>>
                  ELSE r
         IN  IF resample_choices_samples[n][1] = 1
             THEN <<a[1], a[2] + resample_choices_counts[n]>>
             ELSE a

ResampleChoicesSwapped(binary_samples) ==
    LET u == UniqueBitstringsWithCounts(binary_samples)
        r == ResampleLoop(u.y, u.count, Len(u.count))
    IN  <<r[2], r[1]>>

\* resample_choices, from the coins drawn.
ResampleChoices(binary_samples) ==
    LET u == UniqueBitstringsWithCounts(binary_samples)
    IN  ResampleLoop(u.y, u.count, Len(u.count))

\* tf.gather(unique_samples, raw_categorical_samples, axis=0)
Gather(unique_samples, raw_categorical_samples) ==
    [k \in 1..Len(raw_categorical_samples) |->
        unique_samples[raw_categorical_samples[k]]]

CategoryBatches == UNION {[1..n -> RcBitstrings] : n \in 1..MaxDraws}
Queries ==
    UNION {[1..n -> RcBitstrings] : n \in 1..MaxQuery}
        \cup {[k \in 1..Pow2(RcBits) |->
                 [i \in 1..RcBits |-> ((k - 1) \div Pow2(RcBits - i)) % 2]]}

exceptRc == <<engineOnly, fwd, qhbm, bwd, pf>>

RelaxedInit ==
    /\ EngineAtRest
    /\ num_expectation_samples = 1
    /\ fwd = NoResult
    /\ qhbm = NoResult
    /\ bwd = NoResult
    /\ pf = NoResult
    /\ \E category_samples \in CategoryBatches :
          rc = [op |-> "start", category_samples |-> category_samples,
                num_bits |-> 0, num_unique |-> 0, weight |-> <<0, 1>>,
                input_samples |-> <<>>, probs |-> <<>>, num_resamples |-> 0,
                coin |-> <<0, 1>>, binary_samples |-> <<>>,
                categorical_samples |-> <<>>, uniform_samples |-> <<>>,
                result |-> <<>>]

\* _relaxed_categorical_ratio(num_bits, num_unique)
RcRatio(num_bits, num_unique) ==
    /\ rc.op = "start"
    /\ rc' = [rc EXCEPT
                 !.op = "ratio", !.num_bits = num_bits,
                 !.num_unique = num_unique,
                 !.weight = RelaxedCategoricalRatio(num_bits, num_unique)]
    /\ UNCHANGED exceptRc

\* relaxed_categorical_probabilities(category_samples, input_samples)
RcProbabilities(input_samples) ==
    /\ rc.op = "start"
    /\ rc' = [rc EXCEPT
                 !.op = "probabilities", !.input_samples = input_samples,
                 !.probs = RelaxedCategoricalProbabilities(rc.category_samples,
                                                           input_samples)]
    /\ UNCHANGED exceptRc

\* relaxed_categorical_samples(category_samples, num_resamples)
RcSamples(num_resamples) ==
    /\ rc.op = "start"
    /\ LET u == UniqueBitstringsWithCounts(rc.category_samples)
           unique_samples == u.y
           num_unique_samples == Len(unique_samples)
           num_bits == NumBitsOf(rc.category_samples)
           categorical_weight ==
               RelaxedCategoricalRatio(num_bits, num_unique_samples)
           probs == Norm(FracSub(<<1, 1>>, categorical_weight))
       IN  \E coins \in [1..num_resamples -> CoinOutcomes(probs)] :
              LET binary_samples == [k \in 1..num_resamples |-> <<coins[k]>>]
                  resample_choices == ResampleChoices(binary_samples)
              IN  \E raw_categorical_samples \in
                         [1..resample_choices[1] -> 1..num_unique_samples],
                     uniform_samples \in
                         [1..resample_choices[2] -> RcBitstrings] :
                     LET categorical_samples ==
                             Gather(unique_samples, raw_categorical_samples)
                     IN  rc' = [rc EXCEPT
                                   !.op = "samples",
                                   !.num_resamples = num_resamples,
                                   !.coin = probs,
                                   !.binary_samples = binary_samples,
                                   !.categorical_samples = categorical_samples,
                                   !.uniform_samples = uniform_samples,
                                   !.result = categorical_samples \o
                                              uniform_samples]
    /\ UNCHANGED exceptRc

RelaxedNext ==
    \/ \E num_bits \in 1..NumBits :
          \E num_unique \in 0..Pow2(num_bits) : RcRatio(num_bits, num_unique)
    \/ \E input_samples \in Queries : RcProbabilities(input_samples)
    \/ \E num_resamples \in 0..MaxResamples : RcSamples(num_resamples)

SpecRelaxed == RelaxedInit /\ [][RelaxedNext]_vars

\* C14: the mixing weight is 0 when num_unique = 0, and for a fixed num_bits
\* it is strictly smaller at num_unique than at every larger num_unique.
C14_WeightIncreasing ==
    rc.op = "ratio" =>
        /\ rc.num_unique = 0 => rc.weight[1] = 0
        /\ RelaxedCategoricalRatio(rc.num_bits, 0)[1] = 0
        /\ \A more \in 0..Pow2(rc.num_bits) :
              rc.num_unique < more =>
                  FracLess(rc.weight, RelaxedCategoricalRatio(rc.num_bits, more))

\* C14 witness: the weight has been computed for no unique sample.
C14_Witness ==
    /\ rc.op = "ratio"
    /\ rc.num_unique = 0
    /\ rc.num_bits = NumBits

\* C15 as stated: the weight is log(num_unique + 1) divided by the base-2
\* logarithm of 2^num_bits + 1.
C15_Log2Denominator ==
    rc.op = "ratio" =>
        FracEq(rc.weight,
               <<Log(rc.num_unique + 1), Log2(Pow2(rc.num_bits) + 1)>>)

\* C15, amended: the weight is log(num_unique + 1) / log(2^num_bits + 1),
\* both logarithms natural; for num_unique in 0..2^num_bits it lies in
\* [0, 1], and no num_unique in that range gives a larger weight than
\* num_unique = 2^num_bits, where the weight is 1.
C15_WeightFormula ==
    rc.op = "ratio" =>
        /\ FracEq(rc.weight,
                  <<Log(rc.num_unique + 1), Log(Pow2(rc.num_bits) + 1)>>)
        /\ FracLeq(<<0, 1>>, rc.weight)
        /\ FracLeq(rc.weight, <<1, 1>>)
        /\ FracLeq(rc.weight,
                   RelaxedCategoricalRatio(rc.num_bits, Pow2(rc.num_bits)))
        /\ rc.num_unique = Pow2(rc.num_bits) => rc.weight = <<1, 1>>

\* C15 witness: the weight has been computed for a batch that holds every
\* bitstring of the space.
C15_Witness ==
    /\ rc.op = "ratio"
    /\ rc.num_bits = NumBits
    /\ rc.num_unique = Pow2(NumBits)

\* C16: relaxed_categorical_probabilities returns one probability per query
\* row, in query order: (1 - w) / 2^num_bits for a row that was not
\* observed, and w * count / total + (1 - w) / 2^num_bits for an observed
\* row, w being the mixing weight for the number of distinct observed rows.
C16_Probabilities ==
    rc.op = "probabilities" =>
        LET w == RelaxedCategoricalRatio(
                     RcBits, Cardinality(Range(rc.category_samples)))
            total == Len(rc.category_samples)
            uniform == FracMul(FracSub(<<1, 1>>, w), <<1, Pow2(RcBits)>>)
        IN  /\ Len(rc.probs) = Len(rc.input_samples)
            /\ \A k \in 1..Len(rc.input_samples) :
                  LET count == Occurrences(rc.category_samples,
                                           rc.input_samples[k])
                  IN  IF count = 0
                      THEN rc.probs[k] = Norm(uniform)
                      ELSE rc.probs[k] =
                              Norm(FracAdd(Norm(FracMul(w, <<count, total>>)),
                                           Norm(uniform)))

\* C16 witness: probabilities were returned for a query that holds an
\* unobserved row before the row that all three samples observed.
C16_Witness ==
    /\ rc.op = "probabilities"
    /\ Len(rc.category_samples) = 3
    /\ Len(rc.input_samples) = 2
    /\ Occurrences(rc.category_samples, rc.input_samples[1]) = 0
    /\ Occurrences(rc.category_samples, rc.input_samples[2]) = 3
    /\ rc.probs[1] # rc.probs[2]

\* C17: relaxed_categorical_samples returns num_resamples rows whatever the
\* coins show; a coin succeeds with probability 1 - w; the result is one
\* re-draw of an observed row per failed coin followed by one uniform draw
\* per successful coin.
C17_Samples ==
    rc.op = "samples" =>
        LET w == RelaxedCategoricalRatio(
                     RcBits, Cardinality(Range(rc.category_samples)))
            failures == {k \in 1..Len(rc.binary_samples) :
                            rc.binary_samples[k] = <<0>>}
            successes == {k \in 1..Len(rc.binary_samples) :
                             rc.binary_samples[k] = <<1>>}
        IN  /\ Len(rc.result) = rc.num_resamples
            /\ Len(rc.binary_samples) = rc.num_resamples
            /\ FracEq(FracAdd(rc.coin, w), <<1, 1>>)
            /\ Len(rc.categorical_samples) = Cardinality(failures)
            /\ Len(rc.uniform_samples) = Cardinality(successes)
            /\ \A k \in 1..Len(rc.result) :
                  IF k <= Cardinality(failures)
                  THEN /\ rc.result[k] = rc.categorical_samples[k]
                       /\ rc.result[k] \in Range(rc.category_samples)
                  ELSE /\ rc.result[k] =
                             rc.uniform_samples[k - Cardinality(failures)]
                       /\ rc.result[k] \in RcBitstrings

\* C17 witness: of two coins the first succeeded and the second failed, and
\* the uniform draw is a row that was never observed.
C17_Witness ==
    /\ rc.op = "samples"
    /\ rc.binary_samples = << <<1>>, <<0>> >>
    /\ rc.result[1] \in Range(rc.category_samples)
    /\ rc.result[2] \notin Range(rc.category_samples)

(***************************************************************************)
(* The log-partition computations of the Analytic and Bernoulli engines    *)
(* for one independent-spin energy, given by the logit of every bit:       *)
(* E(x) = sum_i (logits[i] / 2) * (1 - 2 * x[i]).  Energies and exponents  *)
(* are counted in halves, so that they are integers; a sum of exponentials *)
(* sum_k exp(e_k / 2) is the sequence of its exponents e_k, and two such   *)
(* sums are equal when every exponent occurs equally often in both.        *)
(***************************************************************************)
MaxLogit == 2
MaxRows == 2

\* The weights the test gives its energy: first and last bit pinned, middle
\* bit free.
TestLogits == <<-23, 0, 17>>

AllBitstringsLastBitSlowest(num_bits) ==
    [k \in 1..Pow2(num_bits) |->
        [i \in 1..num_bits |-> ((k - 1) \div Pow2(i - 1)) % 2]]

\* itertools.product([0, 1], repeat=num_bits), in the order it yields.
AllBitstrings(num_bits) ==
    [k \in 1..Pow2(num_bits) |->
        [i \in 1..num_bits |-> ((k - 1) \div Pow2(num_bits - i)) % 2]]

\* Twice the energy of bitstring x.
RECURSIVE TwiceEnergy(_, _, _)
TwiceEnergy(logits, x, n) ==
    IF n = 0 THEN 0
    ELSE TwiceEnergy(logits, x, n - 1) + logits[n] * (1 - 2 * x[n])

AnalyticLogitsUnnegated(logits) ==
    LET all_bitstrings == AllBitstrings(Len(logits))
    IN  [k \in 1..Len(all_bitstrings) |->
            TwiceEnergy(logits, all_bitstrings[k], Len(logits))]

\* AnalyticEnergyInference._ready_inference:
\* self._logits_variable.assign(-1.0 * self.all_energies), in halves.
AnalyticLogits(logits) ==
    LET all_bitstrings == AllBitstrings(Len(logits))
    IN  [k \in 1..Len(all_bitstrings) |->
            -TwiceEnergy(logits, all_bitstrings[k], Len(logits))]

\* How often every exponent occurs in a sum of exponentials.
Terms(exponents) ==
    [e \in Range(exponents) |->
        Cardinality({k \in 1..Len(exponents) : exponents[k] = e})]

\* AnalyticEnergyInference._log_partition_forward_pass:
\* tf.reduce_logsumexp(self._logits_variable)
AnalyticLogPartition(cache) ==
    [t |-> "log_of_sum_of_exp", terms |-> Terms(cache)]

ThetasWhole(logits) == [i \in 1..Len(logits) |-> 2 * logits[i]]

\* thetas = 0.5 * self.energy.logits, in halves.
Thetas(logits) == [i \in 1..Len(logits) |-> logits[i]]

\* The product of two sums of exponentials: the sum over all pairs.
ProductOfSums(a, b) ==
    [k \in 1..(Len(a) * Len(b)) |->
        a[((k - 1) \div Len(b)) + 1] + b[((k - 1) % Len(b)) + 1]]

\* tf.math.reduce_sum over the bits of log(exp(thetas) + exp(-thetas)): the
\* logarithm of the product of the single-spin partition functions.
RECURSIVE ProductOfPartitions(_, _)
ProductOfPartitions(thetas, n) ==
    IF n = 0 THEN <<0>>
    ELSE ProductOfSums(ProductOfPartitions(thetas, n - 1),
                       <<thetas[n], -thetas[n]>>)

\* BernoulliEnergyInference._log_partition_forward_pass
BernoulliLogPartition(logits) ==
    LET thetas == Thetas(logits)
    IN  [t |-> "log_of_sum_of_exp",
         terms |-> Terms(ProductOfPartitions(thetas, Len(thetas)))]

exceptPf == <<engineOnly, fwd, qhbm, bwd, rc>>

PartitionInit ==
    /\ EngineAtRest
    /\ num_expectation_samples = 1
    /\ fwd = NoResult
    /\ qhbm = NoResult
    /\ bwd = NoResult
    /\ rc = NoResult
    /\ \E logits \in [1..NumBits -> -MaxLogit..MaxLogit] \cup {TestLogits} :
          pf = [logits |-> logits, logits_variable |-> NoResult,
                analytic |-> NoResult, bernoulli |-> NoResult,
                samples |-> NoResult]

\* The Analytic engine's _ready_inference on the energy.
PartitionAnalyticReady ==
    /\ pf.logits_variable = NoResult
    /\ pf' = [pf EXCEPT !.logits_variable = AnalyticLogits(pf.logits)]
    /\ UNCHANGED exceptPf

\* The Analytic engine's log_partition, after the preface.
PartitionAnalytic ==
    /\ pf.logits_variable # NoResult
    /\ pf.analytic = NoResult
    /\ pf.samples = NoResult
    /\ pf' = [pf EXCEPT !.analytic = AnalyticLogPartition(pf.logits_variable)]
    /\ UNCHANGED exceptPf

\* The Bernoulli engine's log_partition on the same energy.
PartitionBernoulli ==
    /\ pf.bernoulli = NoResult
    /\ pf' = [pf EXCEPT !.bernoulli = BernoulliLogPartition(pf.logits)]
    /\ UNCHANGED exceptPf

\* What the categorical distribution over the cached logits can draw: every
\* index has non-zero probability, the logits being finite.
CategoricalDraws(cache, n) == [1..n -> 0..(Len(cache) - 1)]

\* AnalyticEnergyInference._sample:
\* tf.gather(self.all_bitstrings, self.distribution.sample(n, seed=self.seed))
AnalyticSample(all_bitstrings, raw) ==
    [k \in 1..Len(raw) |-> all_bitstrings[raw[k] + 1]]

\* The Analytic engine's sample(n), after the preface.
PartitionSample(n) ==
    /\ pf.logits_variable # NoResult
    /\ pf.analytic = NoResult
    /\ pf.samples = NoResult
    /\ \E raw \in CategoricalDraws(pf.logits_variable, n) :
          pf' = [pf EXCEPT !.samples =
                    [n |-> n, raw |-> raw,
                     rows |-> AnalyticSample(AllBitstrings(Len(pf.logits)), raw)]]
    /\ UNCHANGED exceptPf

PartitionNext ==
    \/ PartitionAnalyticReady
    \/ PartitionAnalytic
    \/ PartitionBernoulli
    \/ \E n \in 0..MaxRows : PartitionSample(n)

SpecPartition == PartitionInit /\ [][PartitionNext]_vars

\* C18: for one independent-spin energy the Bernoulli engine's log-partition
\* (the sum over the bits of log(exp(theta/2) + exp(-theta/2)), theta the
\* bit's logit) equals the Analytic engine's (the log-sum-exp of the negated
\* energies of all the bitstrings).
C18_SameLogPartition ==
    (pf.analytic # NoResult /\ pf.bernoulli # NoResult) =>
        pf.bernoulli = pf.analytic

\* C18 witness: both engines have computed the log-partition of an energy
\* whose bits have different, non-zero logits.
C18_Witness ==
    /\ pf.analytic # NoResult
    /\ pf.bernoulli # NoResult
    /\ pf.logits # TestLogits
    /\ pf.logits[1] > 0
    /\ pf.logits[2] < 0
    /\ pf.logits[1] # -pf.logits[2]

\* The bitstrings to which the Analytic engine's cache gives the largest
\* logit.
MostLikely ==
    LET all_bitstrings == AllBitstrings(Len(pf.logits))
        l == pf.logits_variable
        largest == {k \in 1..Len(l) : \A j \in 1..Len(l) : l[j] <= l[k]}
    IN  {all_bitstrings[k] : k \in largest}

\* The cache of the Analytic engine built on the test's energy is ready.
TestEnergyReady == pf.logits = TestLogits /\ pf.logits_variable # NoResult

\* C19 as stated: on the test's energy the most likely bitstrings have bit0
\* pinned to 1 and bit2 pinned to 0.
C19_PinnedOneZero ==
    TestEnergyReady => \A x \in MostLikely : x[1] = 1 /\ x[3] = 0

\* C19, amended: on the test's energy bit0 is pinned to 0 and bit2 to 1 and
\* bit1 is free: the two bitstrings 001 and 011 have the same, largest logit
\* in the engine's cache, and the logit of every other bitstring is lower by
\* at least 17 (34 halves), a probability ratio of at least e^17.
C19_PinnedZeroOne ==
    TestEnergyReady =>
        LET all_bitstrings == AllBitstrings(Len(pf.logits))
            l == pf.logits_variable
            top == CHOOSE k \in 1..Len(l) : all_bitstrings[k] \in MostLikely
        IN  /\ Len(pf.logits) = 3
            /\ MostLikely = {<<0, 0, 1>>, <<0, 1, 1>>}
            /\ \A k \in 1..Len(l) :
                  all_bitstrings[k] \notin MostLikely => l[k] + 34 <= l[top]

\* C19 witness: the Analytic engine has built its cache on the test's energy
\* and computed its log-partition.
C19_Witness ==
    /\ TestEnergyReady
    /\ pf.analytic # NoResult
    /\ Cardinality(MostLikely) = 2

(***************************************************************************)
(* The cached logits of the concrete engines, within Spec.                 *)
(***************************************************************************)
\* What the cache of a concrete engine has to hold at parameters p.
CacheAt(k, p) ==
    IF k = "Analytic" THEN [src |-> "neg_all_energies", at |-> p]
    ELSE [src |-> "energy_logits", at |-> EnergyLogits(p)]

\* The step appends a _ready_inference event to the log of the running frame.
ReadyStep ==
    /\ ~Idle
    /\ AtPreface(Top, "first_ready") \/ AtPreface(Top, "stale")
    /\ Depth' = Depth
    /\ Len(Top'.log) > Len(Top.log)
    /\ Top'.log[Len(Top'.log)] \in {"first:ready", "stale:ready"}

\* C21: whenever the body of a public operation of an Analytic (resp.
\* Bernoulli) engine runs, the cached logits are the negated energies of all
\* bitstrings (resp. the logits of the energy) at the current parameters; the
\* cache always holds that quantity at some parameter value, as the constructor
\* left it, and every later step that changes it is a _ready_inference run by
\* a preface, which writes the value at the current parameters.
C21_CachedLogits ==
    /\ [](kind \in ConcreteKinds =>
            /\ \E p \in ParamValues : logits_variable = CacheAt(kind, p)
            /\ BodyStarts => logits_variable = CacheAt(kind, tracked_variables))
    /\ [][logits_variable' # logits_variable =>
            /\ kind \in ConcreteKinds
            /\ ReadyStep
            /\ logits_variable' = CacheAt(kind, tracked_variables)]_vars

\* C21 witness: the body of a nested public operation of a Bernoulli engine
\* starts, after the preface of the outer operation found the parameters
\* changed and rewrote the cache.
C21_Witness ==
    /\ BodyStarts
    /\ kind = "Bernoulli"
    /\ Depth = 2
    /\ "stale:ready" \in Range(stack[1].log)
    /\ logits_variable = CacheAt(kind, tracked_variables)

(***************************************************************************)
(* The enumeration and the samples of the Analytic engine, within          *)
(* SpecPartition.                                                          *)
(***************************************************************************)
\* The number a row of bits spells, most significant bit first.
RECURSIVE RowNumber(_, _)
RowNumber(x, i) == IF i = 0 THEN 0 ELSE 2 * RowNumber(x, i - 1) + x[i]

\* C22: the Analytic engine's enumeration holds each of the 2^num_bits
\* bitstrings exactly once, row i (counted from 0) being the num_bits-wide
\* binary expansion of i, most significant bit first; and sample(n) returns
\* exactly n rows, row k being the bitstring whose number is the k-th
\* categorical index, an index in 0..2^num_bits-1.
C22_EnumerationAndSamples ==
    LET num_bits == Len(pf.logits)
        all_bitstrings == AllBitstrings(num_bits)
    IN  /\ Len(all_bitstrings) = Pow2(num_bits)
        /\ \A k \in 1..Len(all_bitstrings) :
              /\ all_bitstrings[k] \in [1..num_bits -> {0, 1}]
              /\ RowNumber(all_bitstrings[k], num_bits) = k - 1
        /\ \A x \in [1..num_bits -> {0, 1}] :
              Cardinality({k \in 1..Len(all_bitstrings) : all_bitstrings[k] = x}) = 1
        /\ pf.samples # NoResult =>
              /\ Len(pf.samples.rows) = pf.samples.n
              /\ \A k \in 1..pf.samples.n :
                    /\ pf.samples.raw[k] \in 0..(Pow2(num_bits) - 1)
                    /\ pf.samples.rows[k] \in [1..num_bits -> {0, 1}]
                    /\ RowNumber(pf.samples.rows[k], num_bits) = pf.samples.raw[k]

\* C22 witness: sample(2) returned two different rows, the later row of the
\* enumeration first, neither of them a palindrome.
C22_Witness ==
    /\ pf.samples # NoResult
    /\ pf.samples.n = 2
    /\ pf.samples.raw[1] > pf.samples.raw[2]
    /\ pf.samples.raw[2] > 0
    /\ pf.samples.rows[1] # pf.samples.rows[2]
    /\ pf.samples.rows[2][1] # pf.samples.rows[2][Len(pf.logits)]

(***************************************************************************)
(* How often _ready_inference runs, within Spec.                           *)
(***************************************************************************)
\* The _ready_inference invocations a frame's own preface has made.
ReadyCount(f) ==
    Cardinality({i \in 1..Len(f.log) : f.log[i] \in {"first:ready", "stale:ready"}})

\* The frame has run the preface statement that invokes _ready_inference on
\* the first inference.
PastFirstReady(f) ==
    \/ f.pc # "preface"
    \/ \E k \in 1..Len(PrefaceProgram) :
          PrefaceProgram[k] = "first_ready" /\ f.i > k

\* C23: while the first-ever public operation of an engine is in progress,
\* the preface of the caller-invoked operation has invoked _ready_inference
\* exactly once as soon as it is past its first-inference block, as part of
\* that block and not of the staleness refresh, whether or not the parameters
\* differed from the constructor's checkpoint on entry; and the preface of no
\* nested public operation has invoked it.
C23_FirstOperationReadyOnce ==
    (~Idle /\ stack[1].first) =>
        /\ ReadyCount(stack[1]) = (IF PastFirstReady(stack[1]) THEN 1 ELSE 0)
        /\ "stale:ready" \notin Range(stack[1].log)
        /\ PastFirstReady(stack[1]) <=> firstLog \in {<<"ckpt", "ready">>, <<"ckpt", "ready", "clear">>}
        /\ \A d \in 2..Depth :
              /\ ~stack[d].first
              /\ ReadyCount(stack[d]) = 0

\* C23 witness: the first-ever operation, entered with parameters that were
\* mutated after construction, is an expectation whose nested sample starts
\* its body.
C23_Witness ==
    /\ Depth = 2
    /\ stack[1].first
    /\ stack[1].entryUpdated
    /\ stack[1].op = "expectation"
    /\ BodyStarts
    /\ Top.op = "sample"
    /\ ReadyCount(stack[1]) = 1

\* The frame's preface has run to its end.
PrefaceOver(f) == f.op \in PublicOps /\ f.pc # "preface"

\* C24: a preface run has invoked _ready_inference, once, if and only if it
\* was the first preface run of the engine or some tracked parameter differed
\* from the checkpoint when it was entered; so an operation on an engine past
\* its first inference whose parameters equal the checkpoint leaves the cached
\* logits as the last refresh wrote them, and on an engine whose energy has no
\* variables only the preface of the first operation ever invoked has run
\* _ready_inference.
C24_ReadyIffFirstOrUpdated ==
    /\ \A d \in 1..Depth :
          /\ ReadyCount(stack[d]) <= 1
          /\ stack[d].first => d = 1 /\ opsDone = 1
          /\ PrefaceOver(stack[d]) =>
                /\ ReadyCount(stack[d]) = 1 <=>
                      (stack[d].first \/ stack[d].entryUpdated)
                /\ (~stack[d].first /\ ~stack[d].entryUpdated) =>
                      /\ stack[d].log \in {<<>>, <<"seed:split">>}
                      /\ readyParams = tracked_variables
          /\ ~checkpoint =>
                /\ ~stack[d].entryUpdated
                /\ ReadyCount(stack[d]) = 1 => (d = 1 /\ opsDone = 1)
    /\ (~checkpoint /\ opsDone >= 1 /\ Idle) => firstLog = <<"ckpt", "ready", "clear">>

\* C24 witness: on an engine with tracked variables an operation that ran
\* before, no parameter change since, starts its body again without a refresh.
C24_Witness ==
    /\ BodyStarts
    /\ Depth = 1
    /\ checkpoint
    /\ opsDone = 2
    /\ ~Top.first
    /\ ~Top.entryUpdated
    /\ prev[KeyOf(Top)] # NoResult
    /\ ReadyCount(Top) = 0

(***************************************************************************)
(* The relaxed probabilities of the whole space, within SpecRelaxed.       *)
(***************************************************************************)
\* The sum of a sequence of fractions, kept in lowest terms.
RECURSIVE NormSum(_, _)
NormSum(q, n) ==
    IF n = 0 THEN <<0, 1>> ELSE Norm(FracAdd(NormSum(q, n - 1), q[n]))

\* The query holds every bitstring of the space exactly once.
WholeSpace(input_samples) ==
    /\ Len(input_samples) = Pow2(RcBits)
    /\ Range(input_samples) = RcBitstrings

\* The rows of the query that were observed, as a set of indices.
ObservedRows(category_samples, input_samples) ==
    {k \in 1..Len(input_samples) : input_samples[k] \in Range(category_samples)}

\* C25: for a non-empty observed sample set, the values
\* relaxed_categorical_probabilities returns for a query that holds each of
\* the 2^num_bits bitstrings once sum to 1, every value is at least 0, and
\* the mixing weight lies in [0, 1]; the values exceed the uniform share
\* (1 - w) / 2^num_bits by w in total.
C25_ProbabilitiesSumToOne ==
    (rc.op = "probabilities" /\ WholeSpace(rc.input_samples)) =>
        LET w == RelaxedCategoricalRatio(
                     RcBits, Cardinality(Range(rc.category_samples)))
            uniform == Norm(FracMul(FracSub(<<1, 1>>, w), <<1, Pow2(RcBits)>>))
            excess == [k \in 1..Len(rc.probs) |->
                          Norm(FracSub(rc.probs[k], uniform))]
        IN  /\ Len(rc.category_samples) >= 1
            /\ FracLeq(<<0, 1>>, w) /\ FracLeq(w, <<1, 1>>)
            /\ Len(rc.probs) = Pow2(RcBits)
            /\ NormSum(rc.probs, Len(rc.probs)) = <<1, 1>>
            /\ \A k \in 1..Len(rc.probs) : FracLeq(<<0, 1>>, rc.probs[k])
            /\ NormSum(excess, Len(excess)) = Norm(w)

\* C25 witness: the whole space was queried after only part of it had been
\* observed, so that the weight is strictly between 0 and 1 and the first row
\* of the query, an observed one, is more probable than its last row.
C25_Witness ==
    /\ rc.op = "probabilities"
    /\ WholeSpace(rc.input_samples)
    /\ ObservedRows(rc.category_samples, rc.input_samples) # {}
    /\ Len(rc.input_samples) \notin
          ObservedRows(rc.category_samples, rc.input_samples)
    /\ 1 \in ObservedRows(rc.category_samples, rc.input_samples)
    /\ FracLess(<<0, 1>>, rc.probs[Len(rc.probs)])
    /\ FracLess(rc.probs[Len(rc.probs)], rc.probs[1])

(***************************************************************************)
(* The gradient of the expectation of a constant, within SpecBackward.     *)
(***************************************************************************)
\* The function has one value on all bitstrings and no derivative with
\* respect to any energy parameter.
ConstantFunction(k) ==
    /\ \A x, y \in Bitstrings : FunctionValue(k, x) = FunctionValue(k, y)
    /\ \A j \in 1..NumBits : \A x \in Bitstrings : FunctionJacobian(k, j, x) = 0

\* C26: when every component of the function is constant over the bitstrings
\* and independent of the energy parameters, grad_fn returns zero for every
\* energy parameter and every upstream gradient: the first and the middle
\* summand are equal and the last summand is zero.
C26_ConstantFunctionZeroGradient ==
    (bwd.pc = "backward" /\ \A i \in 1..Len(bwd.fns) : ConstantFunction(bwd.fns[i])) =>
        \A j \in 1..NumBits :
            LET g == bwd.grads[j]
            IN  /\ g.grad[2] # 0
                /\ g.grad[1] = 0
                /\ FracEq(g.first_summand, g.middle_summand)
                /\ g.last_summand[2] # 0
                /\ g.last_summand[1] = 0

\* C26 witness: a backward pass for two constant components over a batch
\* that holds one bitstring more often than another, with upstream gradients
\* for which the first summand is not zero for some parameter.
C26_Witness ==
    /\ bwd.pc = "backward"
    /\ Len(bwd.fns) = 2
    /\ \A i \in 1..Len(bwd.fns) : ConstantFunction(bwd.fns[i])
    /\ \E a, b \in 1..Len(bwd.counts) : bwd.counts[a] < bwd.counts[b]
    /\ \A i \in 1..Len(bwd.upstream) : bwd.upstream[i] # 0
    /\ \E j \in 1..NumBits : bwd.grads[j].first_summand[1] # 0

====
